---- MODULE Spec2Model ----
(***************************************************************************)
(* Model of the crawl orchestration of Dipendra-creator/WebCrawler:        *)
(*   webcrawler/crawler.py      Crawler (crawl, crawl_page, extract_links, *)
(*                              save_data, _get_browser_context)           *)
(*   examples/advanced_crawl.py AdvancedCrawler (crawl_page override,      *)
(*                              _rotate_proxy)                             *)
(* One crawler instance is modelled.  A Crawler is an AdvancedCrawler with *)
(* an empty proxy list (the override then only counts requests).           *)
(* The browser (Playwright) and the web site are the environment: every    *)
(* call into them either returns or raises, chosen nondeterministically.   *)
(***************************************************************************)
EXTENDS Integers, Sequences, FiniteSets, TLC

(***************************************************************************)
(* Bounds of the model.                                                    *)
(***************************************************************************)
MaxDepthBound == 2      \* max_depth ranges over 0..MaxDepthBound
MaxPagesBound == 4      \* max_pages ranges over 0..MaxPagesBound
MaxLinks == 2           \* most a[href] elements on one page (Spec)
MaxRuns == 2            \* calls of crawl() on the instance
MaxDirectCalls == 1     \* calls of crawl_page() from outside crawl()
RotLeaves == 24         \* pages the start page links to (SpecRot)
MaxTextLen == 5         \* characters of a URL after "h://" (SpecNorm)
MaxApplied == 2         \* times the normalization is applied (SpecNorm)
MaxCandidates == 3      \* entries of the list in a proxy file (SpecLoad)

(***************************************************************************)
(* Program constants.                                                      *)
(***************************************************************************)
RotationThreshold == 10

(***************************************************************************)
(* URLs.  A URL string is modelled by its urlparse() components.           *)
(***************************************************************************)
Url(s, n, p, q, f) ==
    [scheme |-> s, netloc |-> n, path |-> p, query |-> q, fragment |-> f]

HttpA(p) == Url("http", "a.example", p, "", "")

\* the pages of the crawled site, and what a page's a[href] may hold (Spec)
SitePages == {HttpA("/"), HttpA("/p"), HttpA("/q"), HttpA("/x")}
Hrefs == SitePages \cup {Url("http", "b.example", "/", "", "")}

\* the pages of the star-shaped site of SpecRot: "/" links to /1 .. /RotLeaves
Leaf(i) == HttpA("/" \o ToString(i))
RotPages == {HttpA("/")} \cup {Leaf(i) : i \in 1..RotLeaves}

Range(s) == {s[i] : i \in 1..Len(s)}
NoDup(s) == \A i, j \in 1..Len(s) : i # j => s[i] # s[j]
SeqsUpTo(S, n) == UNION {[1..k -> S] : k \in 0..n}

\* the hrefs a page may present, in the order link extraction will yield them
LinkLists == {s \in SeqsUpTo(Hrefs, MaxLinks) : NoDup(s)}

\* what a[href] may hold on the mixed site: the start page, a place in
\* another page, another host, and schemes other than http
WithFragment(u) == Url(u.scheme, u.netloc, u.path, u.query, "top")
MixedHrefs ==
    {HttpA("/"), WithFragment(HttpA("/p")),
     Url("http", "b.example", "/", "", ""),
     Url("ftp", "a.example", "/f", "", ""),
     Url("mailto", "", "x@a.example", "", ""),
     Url("javascript", "", "void(0)", "", ""),
     Url("tel", "", "+123", "", "")}
MixedLists == {s \in SeqsUpTo(MixedHrefs, MaxLinks) : NoDup(s)}

\* The site the crawler is pointed at.  "open": any page may link to any
\* LinkLists.  "star": the start page links to RotLeaves pages that link to
\* nothing.  "calm": the star site when every page of it loads.  "mixed":
\* any page may link to any MixedLists.  "moved": two pages that may link
\* to each other, the first of which may redirect to the second.
MovedPages == {HttpA("/"), HttpA("/p")}
MovedLists == {s \in SeqsUpTo(MovedPages, MaxLinks) : NoDup(s)}

Universe(web) ==
    IF web \in {"star", "calm"} THEN RotPages
    ELSE IF web = "moved" THEN MovedPages
    ELSE IF web = "mixed"
    THEN MixedHrefs \cup {HttpA("/p"), WithFragment(HttpA("/"))}
    ELSE Hrefs
StarLinks == <<HttpA("/")>> \o [i \in 1..RotLeaves |-> Leaf(i)]

NoProxy == "none"

VARIABLES
    \* configuration, fixed at construction
    max_depth, max_pages, proxies, site,
    \* the proxy file the constructor of AdvancedCrawler is given
    proxy_file,
    \* instance state
    visited_urls, data, proxy, proxy_rotation_counter,
    \* locals of crawl()
    pc, urls_to_crawl, current_urls, idx, current_depth, raised,
    \* the browser: what is open, and the objects crawl() holds
    browser, contexts, pages, ctx_proxy, page, context,
    \* history (not program state)
    runs, calls, navcount, level_failed, admissions, dispatched, disc,
    last, events, persisted, rotations, levels,
    \* two URL strings that the normalization of extract_links is applied to
    text, twin, applied

config == <<max_depth, max_pages, proxies, site, proxy_file>>
instance == <<visited_urls, data, proxy, proxy_rotation_counter>>
locals == <<pc, urls_to_crawl, current_urls, idx, current_depth, raised>>
session == <<browser, contexts, pages, ctx_proxy, page, context>>
history == <<runs, calls, navcount, level_failed, admissions, dispatched, disc,
             last, events, persisted, rotations, levels>>
strings == <<text, twin, applied>>
vars == <<config, instance, locals, session, history, strings>>

(***************************************************************************)
(* Link extraction (Crawler.extract_links).                                *)
(***************************************************************************)
\* the filter of the script evaluated in the page
JsFilter(hrefs) ==
    SelectSeq(hrefs, LAMBDA h : h.scheme \notin {"javascript", "mailto"})

\* urljoin(base_url, link) of an a.href value, which the browser has
\* already made absolute: the link itself
urljoin(base, link) == link

\* mutant: only the links of the start page are held to its host
SameDomain_StartPageOnly(parsed, parsed_base) ==
    parsed_base.path = "/" => parsed.netloc = parsed_base.netloc

\* crawler.py 157
SameDomain(parsed, parsed_base) == parsed.netloc = parsed_base.netloc

\* scheme://netloc path [?query]: the fragment is dropped
normalized_url(parsed) ==
    Url(parsed.scheme, parsed.netloc, parsed.path, parsed.query, "")

\* list(set(s)): one copy of each element (the order is the environment's,
\* see LinkLists)
RECURSIVE Dedupe(_)
Dedupe(s) ==
    IF s = <<>> THEN <<>>
    ELSE LET rest == Dedupe(SelectSeq(Tail(s), LAMBDA e : e # Head(s)))
         IN  <<Head(s)>> \o rest

RECURSIVE MapNorm(_)
MapNorm(s) ==
    IF s = <<>> THEN <<>> ELSE <<normalized_url(Head(s))>> \o MapNorm(Tail(s))

extract_links(hrefs, base_url) ==
    LET links == JsFilter(hrefs)
        same  == SelectSeq(links,
                     LAMBDA l : SameDomain(urljoin(base_url, l), base_url))
    IN  Dedupe(MapNorm(same))

(***************************************************************************)
(* The normalization on URL strings (crawler.py 153-161).  A string is a   *)
(* sequence of characters; "h" stands for the letters of the scheme http   *)
(* and "a" for any character that delimits nothing.                        *)
(***************************************************************************)
Chars == {"a", "/", "?", "#", ";"}

\* the first position of s holding one of cs, Len(s) + 1 if there is none
Find(s, cs) ==
    IF \E i \in 1..Len(s) : s[i] \in cs
    THEN CHOOSE i \in 1..Len(s) :
             s[i] \in cs /\ \A j \in 1..(i - 1) : s[j] \notin cs
    ELSE Len(s) + 1

\* the last position of s holding c, 0 if there is none
RFind(s, c) ==
    IF \E i \in 1..Len(s) : s[i] = c
    THEN CHOOSE i \in 1..Len(s) :
             s[i] = c /\ \A j \in (i + 1)..Len(s) : s[j] # c
    ELSE 0

From(s, i) == SubSeq(s, i, Len(s))
Upto(s, i) == SubSeq(s, 1, i)

\* urllib.parse.urlparse: scheme ":" ["//" netloc] path [";" params]
\* ["?" query] ["#" fragment]; the params are cut from the last segment of
\* the path
urlparse(url) ==
    LET colon   == Find(url, {":"})
        rest    == From(url, colon + 1)
        slashes == Len(rest) >= 2 /\ rest[1] = "/" /\ rest[2] = "/"
        auth    == IF slashes THEN From(rest, 3) ELSE <<>>
        cut     == Find(auth, {"/", "?", "#"})
        after   == IF slashes THEN From(auth, cut) ELSE rest
        hash    == Find(after, {"#"})
        nofrag  == Upto(after, hash - 1)
        mark    == Find(nofrag, {"?"})
        full    == Upto(nofrag, mark - 1)
        seg     == RFind(full, "/")
        semi    == seg + Find(From(full, seg + 1), {";"})
    IN  [scheme   |-> Upto(url, colon - 1),
         netloc   |-> IF slashes THEN Upto(auth, cut - 1) ELSE <<>>,
         path     |-> Upto(full, semi - 1),
         params   |-> From(full, semi + 1),
         query    |-> From(nofrag, mark + 1),
         fragment |-> From(after, hash + 1)]

\* mutant: the fragment is kept
normalized_string_WithFragment(parsed) ==
    parsed.scheme \o <<":", "/", "/">> \o parsed.netloc \o parsed.path
        \o (IF parsed.query # <<>> THEN <<"?">> \o parsed.query ELSE <<>>)
        \o (IF parsed.fragment # <<>> THEN <<"#">> \o parsed.fragment
            ELSE <<>>)

\* crawler.py 159-161: f"{scheme}://{netloc}{path}" and "?{query}" if any
normalized_string(parsed) ==
    parsed.scheme \o <<":", "/", "/">> \o parsed.netloc \o parsed.path
        \o (IF parsed.query # <<>> THEN <<"?">> \o parsed.query ELSE <<>>)

\* crawler.py 153-161 for a link that is absolute already
normalize(link) == normalized_string(urlparse(link))

\* the absolute http URLs of up to MaxTextLen characters after "h://"
UrlTexts == {<<"h", ":", "/", "/">> \o r : r \in SeqsUpTo(Chars, MaxTextLen)}

\* url with its fragment replaced
Refragment(url, tail) == Upto(url, Find(url, {"#"}) - 1) \o tail
Tails == {<<>>, <<"#">>, <<"#", "a">>, <<"#", "?">>, <<"#", "/">>}

(***************************************************************************)
(* The guards of crawl_page and of the loop of crawl.                      *)
(***************************************************************************)
\* mutant: crawl_page does not look at the visited set
AlreadyVisited_Never(url) == FALSE

AlreadyVisited(url) == url \in visited_urls

\* mutant: the budget test is off by one
BudgetExhausted_OffByOne == Cardinality(visited_urls) > max_pages

BudgetExhausted == Cardinality(visited_urls) >= max_pages

TooDeep(depth) == depth > max_depth

\* crawler.py 179-186: crawl_page returns [] at once
Rejected(url, depth) ==
    AlreadyVisited(url) \/ BudgetExhausted \/ TooDeep(depth)

\* mutant: the loop passes over a URL only when the budget is spent
LoopSkips_BudgetOnly(url) == Cardinality(visited_urls) >= max_pages

\* crawler.py 247: the loop passes over the URL
LoopSkips(url) ==
    url \in visited_urls \/ Cardinality(visited_urls) >= max_pages

\* crawler.py 240: the condition of the while loop
LoopContinues ==
    urls_to_crawl # <<>> /\ Cardinality(visited_urls) < max_pages

\* mutant: links are extracted at the maximum depth too
DiscoversLinks_AtMaxDepth(depth) == depth <= max_depth

\* crawler.py 209: links are extracted below the maximum depth only
DiscoversLinks(depth) == depth < max_depth

\* mutant: the URL is not marked
MarkVisited_Never(url) == visited_urls

\* crawler.py 189: the URL is marked before the page is loaded
MarkVisited(url) == visited_urls \cup {url}

\* mutant: every link is returned
Unvisited_All(links, visited) == links

\* crawler.py 212: only the links not visited yet are returned
Unvisited(links, visited) == SelectSeq(links, LAMBDA l : l \notin visited)

\* the link lists the page at url may present when it is loaded
PageLinks(url) ==
    IF site \in {"star", "calm"}
    THEN (IF url = HttpA("/") THEN {StarLinks} ELSE {<<>>})
    ELSE IF site = "mixed" THEN MixedLists
    ELSE IF site = "moved" THEN MovedLists
    ELSE LinkLists

\* utils.py: the placeholder allows every URL
is_robots_allowed(url) == TRUE

(***************************************************************************)
(* Rotation (AdvancedCrawler.crawl_page 86-89, _rotate_proxy).             *)
(***************************************************************************)
\* mutant: the rotation waits for the counter to pass the threshold
ShouldRotate_Late ==
    proxies # <<>> /\ proxy_rotation_counter > RotationThreshold

\* advanced_crawl.py 87
ShouldRotate ==
    proxies # <<>> /\ proxy_rotation_counter >= RotationThreshold

\* list.index: the first position holding the value (0-based)
IndexOf(s, v) == (CHOOSE i \in 1..Len(s) : s[i] = v /\ \A j \in 1..(i-1) : s[j] # v) - 1

\* mutant: the rotation picks the proxy it already has
proxy_index_Same ==
    IF proxy \in Range(proxies) THEN IndexOf(proxies, proxy) ELSE 0

\* advanced_crawl.py 109: the entry after the current one, cyclically
proxy_index ==
    IF proxy \in Range(proxies)
    THEN (IndexOf(proxies, proxy) + 1) % Len(proxies)
    ELSE 0

\* the caller's page of a call of crawl_page from outside crawl()
ExtPage == -1

\* what is open after a statement of _rotate_proxy
Step(op, cs, ps) == [op |-> op, contexts |-> cs, pages |-> ps]

\* mutant: the old context is closed before the new one is created
RotateProxy_ReleaseFirst(pg, rot) ==
    LET new == Len(ctx_proxy)
        np  == proxies[proxy_index + 1]
        own == pg # ExtPage
        closed == Step("close", contexts \ {pg}, pages \ {pg})
        made   == Step("new_context", closed.contexts \cup {new},
                       closed.pages)
        paged  == Step("new_page", made.contexts, made.pages \cup {new})
        steps  == IF ~own THEN <<>>
                  ELSE IF rot = "context_fails" THEN <<closed>>
                  ELSE IF rot = "page_fails" THEN <<closed, made>>
                  ELSE <<closed, made, paged>>
    IN  [raised    |-> rot # "ok",
         proxy     |-> np,
         ctx_proxy |-> IF own /\ rot # "context_fails"
                       THEN Append(ctx_proxy, np) ELSE ctx_proxy,
         contexts  |-> IF steps = <<>> THEN contexts
                       ELSE steps[Len(steps)].contexts,
         pages     |-> IF steps = <<>> THEN pages
                       ELSE steps[Len(steps)].pages,
         steps     |-> steps]

\* _rotate_proxy(pg) with the environment's outcome rot.  Contexts are
\* numbered in creation order (the one of crawl() is 0) and context n holds
\* page n.  The statements that open or close something are, in order,
\* browser.new_context (122), new_context.new_page (123) and
\* context.close on the context of pg (126); closing a closed context does
\* nothing.  The last line of _rotate_proxy rebinds its own parameter only:
\* nothing of the caller changes.
RotateProxy(pg, rot) ==
    LET new == Len(ctx_proxy)
        np  == proxies[proxy_index + 1]
        own == pg # ExtPage
        made   == Step("new_context", contexts \cup {new}, pages)
        paged  == Step("new_page", made.contexts, made.pages \cup {new})
        closed == Step("close", paged.contexts \ {pg}, paged.pages \ {pg})
        steps  == IF ~own \/ rot = "context_fails" THEN <<>>
                  ELSE IF rot = "page_fails" THEN <<made>>
                  ELSE <<made, paged, closed>>
    IN  [raised    |-> rot # "ok",
         proxy     |-> np,
         ctx_proxy |-> IF own /\ rot # "context_fails"
                       THEN Append(ctx_proxy, np) ELSE ctx_proxy,
         contexts  |-> IF steps = <<>> THEN contexts
                       ELSE steps[Len(steps)].contexts,
         pages     |-> IF steps = <<>> THEN pages
                       ELSE steps[Len(steps)].pages,
         steps     |-> steps]

(***************************************************************************)
(* crawl_page(pg, url, depth): AdvancedCrawler.crawl_page followed by      *)
(* Crawler.crawl_page.  rot, out, hrefs and final are the environment's    *)
(* choices: how a rotation ends, how the page load ends, what the page     *)
(* links to, and the address the load ended on (page.url).                 *)
(* The value is what the call leaves behind and returns.                   *)
(***************************************************************************)
RotOutcomes == {"ok", "context_fails", "page_fails"}
Outcomes == {"ok", "nav_fails", "extract_fails", "shot_fails", "links_fails"}

\* mutant: a navigation error is not caught
Caught_NotNavigation(outcome) == outcome # "nav_fails"

\* crawler.py 214: the except clause catches whatever the try block raises
Caught(outcome) == TRUE

\* the pacing delay, by how the try block was left (crawler.py 208-219):
\* the return inside the try block leaves without reaching time.sleep
Slept(depth, outcome) ==
    IF outcome = "ok" /\ DiscoversLinks(depth) THEN 0 ELSE 1

CrawlPage(pg, url, depth, rot, out, hrefs, final) ==
    LET rotate  == ShouldRotate
        r       == IF rotate THEN RotateProxy(pg, rot)
                   ELSE [raised |-> FALSE, proxy |-> proxy,
                         ctx_proxy |-> ctx_proxy, contexts |-> contexts,
                         pages |-> pages, steps |-> <<>>]
        counter == (IF rotate THEN 0 ELSE proxy_rotation_counter) + 1
        admit   == ~Rejected(url, depth)
        visited == MarkVisited(url)
        usable  == IF pg = ExtPage THEN ~rotate ELSE pg \in r.pages
        outcome == IF ~usable THEN "nav_fails"
                   ELSE IF out = "links_fails" /\ ~DiscoversLinks(depth)
                        THEN "ok" ELSE out
        \* extract_data: 'url' is page.url, the address the load ended on
        \* run: the run that appended the record (history; 0 outside crawl())
        record  == [url |-> final, run |-> IF pg = ExtPage THEN 0 ELSE runs]
        base    == [raised |-> FALSE, rotated |-> rotate, proxy |-> r.proxy,
                    ctx_proxy |-> r.ctx_proxy, contexts |-> r.contexts,
                    pages |-> r.pages, counter |-> counter,
                    admitted |-> FALSE, visited |-> visited_urls,
                    navigated |-> FALSE, outcome |-> "none", data |-> data,
                    slept |-> 0, result |-> <<>>, offsite |-> FALSE,
                    steps |-> r.steps]
    IN  IF ~is_robots_allowed(url)
        THEN [base EXCEPT !.rotated = FALSE, !.proxy = proxy,
                          !.ctx_proxy = ctx_proxy, !.contexts = contexts,
                          !.pages = pages, !.steps = <<>>,
                          !.counter = proxy_rotation_counter]
        ELSE IF r.raised
        THEN [base EXCEPT !.raised = TRUE,
                          !.counter = proxy_rotation_counter]
        ELSE IF ~admit THEN base
        ELSE [base EXCEPT
                !.raised    = outcome # "ok" /\ ~Caught(outcome),
                !.admitted  = TRUE,
                !.visited   = visited,
                !.navigated = TRUE,
                !.outcome   = outcome,
                !.data      = IF outcome \in {"ok", "shot_fails", "links_fails"}
                              THEN Append(data, record) ELSE data,
                !.slept     = Slept(depth, outcome),
                !.result    = IF outcome = "ok" /\ DiscoversLinks(depth)
                              THEN Unvisited(extract_links(hrefs, url), visited)
                              ELSE <<>>,
                \* history: the page presented a link to another host
                !.offsite   = /\ outcome = "ok" /\ DiscoversLinks(depth)
                              /\ \E i \in 1..Len(hrefs) :
                                     /\ hrefs[i].scheme \in {"http", "https"}
                                     /\ hrefs[i].netloc # url.netloc]

\* page.url after page.goto(url): url itself, or where the server
\* redirected to (the start page of the moved site may redirect)
PageUrls(url) ==
    IF site = "moved" /\ url.path = "/" THEN {url, HttpA("/p")} ELSE {url}

\* the environment's choices that make a difference to a call
Choices(url, depth) ==
    LET rots  == IF ShouldRotate THEN RotOutcomes ELSE {"ok"}
        fails == IF site = "calm" THEN {}
                 ELSE IF DiscoversLinks(depth) THEN Outcomes \ {"ok"}
                 ELSE Outcomes \ {"ok", "links_fails"}
        lists == IF DiscoversLinks(depth) THEN PageLinks(url) ELSE {<<>>}
        shots == fails \cap {"shot_fails", "links_fails"}
    IN  [rot : rots, out : fails \ shots, hrefs : {<<>>}, final : {url}]
            \cup [rot : rots, out : shots, hrefs : {<<>>},
                  final : PageUrls(url)]
            \cup [rot : rots, out : {"ok"}, hrefs : lists,
                  final : PageUrls(url)]

(***************************************************************************)
(* Construction (Crawler.__init__, AdvancedCrawler.__init__).              *)
(***************************************************************************)
NoCall ==
    [via |-> "none", url |-> HttpA("/"), depth |-> 0,
     rotated |-> FALSE, admitted |-> FALSE, navigated |-> FALSE,
     outcome |-> "none", slept |-> 0, result |-> <<>>, raised |-> FALSE,
     appended |-> FALSE, run |-> 0, after_fail |-> FALSE, offsite |-> FALSE,
     steps |-> <<>>]

\* what an entry of the JSON list in a proxy file can be: not a dict, a
\* dict without the key 'server', a dict whose server is the empty string,
\* a dict with a server
Dict(server) == [mapping |-> TRUE, fields |-> {"server"}, server |-> server]
Candidates ==
    { [mapping |-> FALSE, fields |-> {}, server |-> ""],
      [mapping |-> TRUE, fields |-> {"username"}, server |-> ""],
      Dict(""), Dict("A"), Dict("B") }

\* the proxy_file argument: None, a path where no file is, or a file that
\* holds a JSON list
NoFile == [given |-> FALSE, exists |-> FALSE, content |-> <<>>]
ProxyFiles ==
    { NoFile, [given |-> TRUE, exists |-> FALSE, content |-> <<>>] } \cup
    [given : {TRUE}, exists : {TRUE},
     content : SeqsUpTo(Candidates, MaxCandidates)]

\* the file a pool of proxies was loaded from
FileOf(pool) ==
    IF pool = <<>> THEN NoFile
    ELSE [given |-> TRUE, exists |-> TRUE,
          content |-> [i \in DOMAIN pool |-> Dict(pool[i])]]

\* utils.load_proxies: FileNotFoundError where no file is, ValueError at an
\* entry that is not a dict or has no key 'server', else the whole list (a
\* proxy is named by its server)
load_proxies(file) ==
    IF ~file.exists
    THEN [raised |-> TRUE, proxies |-> <<>>]
    ELSE IF \E i \in DOMAIN file.content :
                \/ ~file.content[i].mapping
                \/ "server" \notin file.content[i].fields
         THEN [raised |-> TRUE, proxies |-> <<>>]
         ELSE [raised |-> FALSE,
               proxies |-> [i \in DOMAIN file.content |->
                               file.content[i].server]]

\* the fields of a crawler that do not depend on the proxy file
Fields(d, m, web) ==
    /\ max_depth = d /\ max_pages = m /\ site = web
    /\ visited_urls = {} /\ data = <<>>
    /\ proxy_rotation_counter = 0
    /\ urls_to_crawl = <<>> /\ current_urls = <<>>
    /\ idx = 1 /\ current_depth = 0 /\ raised = FALSE
    /\ browser = "none" /\ contexts = {} /\ pages = {} /\ ctx_proxy = <<>>
    /\ page = 0 /\ context = 0
    /\ runs = 0 /\ calls = 0
    /\ navcount = [u \in Universe(web) |-> 0] /\ level_failed = FALSE
    /\ admissions = 0 /\ dispatched = <<>>
    /\ disc = [u \in Universe(web) |-> -1]
    /\ last = NoCall /\ events = <<>> /\ persisted = <<>> /\ rotations = 0
    /\ levels = 0
    /\ applied = 0

Constructed(d, m, pool, web) ==
    /\ Fields(d, m, web)
    /\ proxy_file = FileOf(pool) /\ proxies = pool
    /\ proxy = IF pool # <<>> THEN pool[1] ELSE NoProxy
    /\ pc = "idle"

\* a Crawler (no proxies) on any site of up to four pages
NoStrings == text = <<>> /\ twin = <<>>

Init ==
    /\ \E d \in 0..MaxDepthBound, m \in 0..MaxPagesBound :
           Constructed(d, m, <<>>, "open")
    /\ NoStrings

\* an AdvancedCrawler with room for every page of the star site: with a
\* proxy pool, or without proxies on the site whose pages all load
ProxyPools == {<<>>, <<"A", "B">>, <<"A", "B", "C">>}

\* a Crawler on the mixed site, with room for every page of it
InitLinks ==
    /\ \E d \in 0..MaxDepthBound : Constructed(d, MaxPagesBound, <<>>, "mixed")
    /\ NoStrings

\* a Crawler on the moved site
InitMoved ==
    /\ \E d \in 0..MaxDepthBound, m \in 0..MaxPagesBound :
           Constructed(d, m, <<>>, "moved")
    /\ NoStrings

\* two links that differ in the fragment at most, before extract_links
\* normalizes them
InitNorm ==
    /\ Constructed(0, 0, <<>>, "open")
    /\ text \in UrlTexts
    /\ \E tail \in Tails : twin = Refragment(text, tail)

\* an AdvancedCrawler whose proxy file lists one proxy twice, on the star
\* site when every page of it loads
RepeatingPools == {<<"A", "A", "B">>, <<"A", "B", "A">>}

InitCycle ==
    /\ \E pool \in RepeatingPools :
           Constructed(1, RotLeaves + 1, pool, "calm")
    /\ NoStrings

\* AdvancedCrawler(proxy_file=...) about to be constructed
InitLoad ==
    /\ Fields(0, 0, "open")
    /\ proxy_file \in ProxyFiles
    /\ proxies = <<>> /\ proxy = NoProxy
    /\ pc = "new"
    /\ NoStrings

InitRot ==
    /\ \E pool \in ProxyPools :
           Constructed(1, RotLeaves + 1, pool,
                       IF pool = <<>> THEN "calm" ELSE "star")
    /\ NoStrings

(***************************************************************************)
(* What a call of crawl_page leaves in the instance and in the history.    *)
(***************************************************************************)
Called(via, url, depth, c) ==
    /\ visited_urls' = c.visited
    /\ data' = c.data
    /\ proxy' = c.proxy
    /\ proxy_rotation_counter' = c.counter
    /\ contexts' = c.contexts /\ pages' = c.pages /\ ctx_proxy' = c.ctx_proxy
    /\ navcount' = IF c.navigated
                   THEN [navcount EXCEPT ![url] = @ + 1] ELSE navcount
    /\ admissions' = admissions + (IF c.admitted THEN 1 ELSE 0)
    /\ rotations' = rotations + (IF c.rotated /\ ~c.raised THEN 1 ELSE 0)
    /\ last' = [via |-> via, url |-> url, depth |-> depth,
                rotated |-> c.rotated,
                admitted |-> c.admitted, navigated |-> c.navigated,
                outcome |-> c.outcome, slept |-> c.slept,
                result |-> c.result, raised |-> c.raised,
                appended |-> Len(c.data) > Len(data),
                run |-> IF via = "loop" THEN runs ELSE 0,
                after_fail |-> via = "loop" /\ level_failed,
                offsite |-> c.offsite, steps |-> c.steps]
    /\ level_failed' = (via = "loop" /\
                            (level_failed \/ c.outcome = "nav_fails"))

(***************************************************************************)
(* crawl(start_url).                                                       *)
(***************************************************************************)
\* the URL crawl() is called with: the start page of the site, with a
\* fragment where the site has such links
StartUrls == {HttpA("/"), WithFragment(HttpA("/"))}

\* the arguments of a call of crawl_page from outside crawl()
DirectUrls == {HttpA("/"), HttpA("/p")}
DirectDepths == {max_depth, max_depth + 1}

AcqOutcomes == {"ok", "launch_fails", "context_fails", "page_fails"}

\* crawler.py 231-237: _get_browser_context(), context.new_page(), and the
\* first two lines of the try block.  A failure here is raised to the
\* caller of crawl() from outside the try block.
StartCrawl(start_url, acq) ==
    /\ pc = "idle" /\ runs < MaxRuns
    /\ start_url \in Universe(site)
    /\ runs' = runs + 1
    /\ browser' = IF acq = "launch_fails" THEN "none" ELSE "open"
    /\ contexts' = IF acq \in {"launch_fails", "context_fails"} THEN {} ELSE {0}
    /\ pages' = IF acq = "ok" THEN {0} ELSE {}
    /\ ctx_proxy' = IF acq \in {"launch_fails", "context_fails"}
                    THEN <<>> ELSE <<proxy>>
    /\ page' = 0 /\ context' = 0
    /\ raised' = (acq # "ok")
    /\ pc' = IF acq = "ok" THEN "while" ELSE "idle"
    /\ urls_to_crawl' = IF acq = "ok" THEN <<start_url>> ELSE <<>>
    /\ current_urls' = <<>> /\ idx' = 1 /\ current_depth' = 0
    /\ dispatched' = <<>>
    /\ disc' = [u \in DOMAIN disc |->
                   IF acq = "ok" /\ u = start_url THEN 0 ELSE -1]
    /\ events' = <<>> /\ persisted' = <<>> /\ rotations' = 0
    /\ level_failed' = FALSE /\ levels' = 0
    /\ UNCHANGED <<strings, config, instance, calls, navcount, admissions, last>>

\* crawler.py 240-243: the test of the while loop and the start of a level
WhileTest ==
    /\ pc = "while"
    /\ IF LoopContinues
       THEN /\ current_urls' = urls_to_crawl
            /\ urls_to_crawl' = <<>>
            /\ idx' = 1
            /\ pc' = "for"
            /\ levels' = levels + 1
       ELSE /\ pc' = "save"
            /\ UNCHANGED <<current_urls, urls_to_crawl, idx, levels>>
    /\ level_failed' = FALSE
    /\ UNCHANGED <<strings, config, instance, current_depth, raised, session, runs,
                   calls, navcount, admissions, dispatched, disc, last,
                   events, persisted, rotations>>

\* crawler.py 246-248: the loop passes over a URL
ForSkip ==
    /\ pc = "for" /\ idx <= Len(current_urls)
    /\ LoopSkips(current_urls[idx])
    /\ idx' = idx + 1
    /\ UNCHANGED <<strings, config, instance, pc, urls_to_crawl, current_urls,
                   current_depth, raised, session, history>>

\* mutant: the links a page returned are crawled before the rest of its level
Enqueue_DepthFirst(rest, next, new_urls) ==
    [rest |-> new_urls \o rest, next |-> next]

\* crawler.py 252: where the links a page returned go
Enqueue(rest, next, new_urls) == [rest |-> rest, next |-> next \o new_urls]

\* the depth at which each URL was first found: one more than the depth
\* of the page that linked to it
Discovered(url, new_urls) ==
    [u \in DOMAIN disc |->
        IF disc[u] = -1 /\ u \in Range(new_urls) THEN disc[url] + 1
        ELSE disc[u]]

\* crawler.py 250-255: the loop hands a URL to crawl_page
ForCrawlWith(c) ==
    /\ LET url == current_urls[idx]
           r   == CrawlPage(page, url, current_depth, c.rot, c.out, c.hrefs,
                            c.final)
           rem == SubSeq(current_urls, idx + 1, Len(current_urls))
           q   == Enqueue(rem, urls_to_crawl, r.result)
       IN  /\ Called("loop", url, current_depth, r)
           /\ dispatched' = Append(dispatched, url)
           /\ disc' = Discovered(url, r.result)
           /\ IF r.raised
              THEN /\ pc' = "finally" /\ raised' = TRUE
                   /\ UNCHANGED <<urls_to_crawl, current_urls, idx>>
              ELSE /\ pc' = "for" /\ raised' = FALSE
                   /\ urls_to_crawl' = q.next
                   /\ current_urls' = SubSeq(current_urls, 1, idx) \o q.rest
                   /\ idx' = idx + 1
    /\ UNCHANGED <<strings, config, current_depth, browser, page, context,
                   runs, calls, events, persisted, levels>>

ForCrawl ==
    /\ pc = "for" /\ idx <= Len(current_urls)
    /\ ~LoopSkips(current_urls[idx])
    /\ \E c \in Choices(current_urls[idx], current_depth) : ForCrawlWith(c)

\* mutant: the loop is left once the depth reaches max_depth
DepthExceeded_AtMax(depth) == depth >= max_depth

\* crawler.py 259: the loop is left once the depth passes max_depth
DepthExceeded(depth) == depth > max_depth

\* crawler.py 257-260: the end of a level
ForEnd ==
    /\ pc = "for" /\ idx > Len(current_urls)
    /\ current_depth' = current_depth + 1
    /\ pc' = IF DepthExceeded(current_depth + 1) THEN "save" ELSE "while"
    /\ UNCHANGED <<strings, config, instance, urls_to_crawl, current_urls, idx,
                   raised, session, history>>

\* crawler.py 262-263 and save_data: the records and the run's metadata are
\* written; an error of the file system is raised to the caller of crawl()
Snapshot ==
    [urls_crawled |-> Cardinality(visited_urls), max_depth |-> max_depth,
     data |-> data]

\* mutant: crawl() goes to its finally block without calling save_data
SaveData_Skipped(ok) ==
    /\ pc = "save"
    /\ pc' = "finally"
    /\ raised' = FALSE
    /\ UNCHANGED <<strings, config, instance, urls_to_crawl, current_urls, idx,
                   current_depth, session, history>>

SaveData(ok) ==
    /\ pc = "save"
    /\ events' = Append(events, "save")
    /\ persisted' = IF ok THEN Append(persisted, Snapshot) ELSE persisted
    /\ raised' = ~ok
    /\ pc' = "finally"
    /\ UNCHANGED <<strings, config, instance, urls_to_crawl, current_urls, idx,
                   current_depth, session, runs, calls, navcount, level_failed,
                   admissions, dispatched, disc, last, rotations, levels>>

\* crawler.py 267-271: page.close(), context.close(), browser.close();
\* closing the browser closes every context and page made from it
Finally ==
    /\ pc = "finally"
    /\ browser' = "closed" /\ contexts' = {} /\ pages' = {}
    /\ events' = Append(events, "release")
    /\ pc' = "idle"
    /\ UNCHANGED <<strings, config, instance, urls_to_crawl, current_urls, idx,
                   current_depth, raised, ctx_proxy, page, context, runs,
                   calls, navcount, level_failed, admissions, dispatched, disc,
                   last, persisted, rotations, levels>>

\* crawl_page called by the user of the instance, on a page of their own,
\* while no crawl() is running
DirectCall(url, depth, c) ==
    /\ pc = "idle" /\ calls < MaxDirectCalls
    /\ calls' = calls + 1
    /\ Called("direct", url, depth,
              CrawlPage(ExtPage, url, depth, c.rot, c.out, c.hrefs, c.final))
    /\ UNCHANGED <<strings, config, locals, browser, page, context, runs,
                   dispatched, disc, events, persisted, levels>>

\* the steps of crawl()
Crawl ==
    \/ \E u \in StartUrls, acq \in AcqOutcomes : StartCrawl(u, acq)
    \/ WhileTest
    \/ ForSkip
    \/ ForCrawl
    \/ ForEnd
    \/ \E ok \in BOOLEAN : SaveData(ok)
    \/ Finally

Next ==
    \/ Crawl
    \/ \E u \in DirectUrls, d \in DirectDepths :
           \E c \in Choices(u, d) : DirectCall(u, d, c)

\* a Crawler on the open site, used through crawl() and crawl_page()
Spec == Init /\ [][Next]_vars

\* an AdvancedCrawler on the star site, used through crawl()
SpecRot == InitRot /\ [][Crawl]_vars

\* a Crawler on the mixed site, used through crawl()
SpecLinks == InitLinks /\ [][Crawl]_vars

\* the loop body of extract_links applied to the two links, and again to
\* what it made of them
Normalize ==
    /\ applied < MaxApplied
    /\ text' = normalize(text)
    /\ twin' = normalize(twin)
    /\ applied' = applied + 1
    /\ UNCHANGED <<config, instance, locals, session, history>>

SpecNorm == InitNorm /\ [][Normalize]_vars

(***************************************************************************)
(* AdvancedCrawler.__init__: the proxy pool is loaded when a proxy file    *)
(* is given and exists; an error of load_proxies leaves no crawler.        *)
(***************************************************************************)
NewAdvancedCrawler ==
    /\ pc = "new"
    /\ LET loads == proxy_file.given /\ proxy_file.exists
           r == load_proxies(proxy_file)
           pool == IF loads /\ ~r.raised THEN r.proxies ELSE <<>>
       IN /\ raised' = (loads /\ r.raised)
          /\ pc' = IF loads /\ r.raised THEN "failed" ELSE "idle"
          /\ proxies' = pool
          /\ proxy' = IF pool # <<>> THEN pool[1] ELSE NoProxy
    /\ UNCHANGED <<max_depth, max_pages, site, proxy_file, visited_urls,
                   data, proxy_rotation_counter, urls_to_crawl, current_urls,
                   idx, current_depth, session, history, strings>>

SpecLoad == InitLoad /\ [][NewAdvancedCrawler]_vars

\* an AdvancedCrawler with a repeating pool, used through crawl()
SpecCycle == InitCycle /\ [][Crawl]_vars

\* a Crawler on the moved site, used through crawl()
SpecMoved == InitMoved /\ [][Crawl]_vars

\* a Crawler on the open site whose crawl() calls are not suspended for
\* ever: every call into the browser returns or raises (page.goto has a
\* time limit), and nothing else in crawl() waits
SpecLive == Init /\ [][Crawl]_vars /\ WF_vars(Crawl)

(***************************************************************************)
(* Properties.                                                             *)
(***************************************************************************)
InRun == pc \in {"while", "for", "save", "finally"}

\* the URLs of the current level that the loop has not reached yet
Pending == SubSeq(current_urls, idx, Len(current_urls))

\* the records appended by the current run, in append order
RunRecords == SelectSeq(data, LAMBDA r : r.run = runs)

\* the last call of crawl_page was made by the loop of the current run
LastInRun == last.via = "loop" /\ last.run = runs

\* the depth of the URLs in urls_to_crawl: the next level while a level is
\* processed, the level about to start otherwise
QueueDepth == IF pc = "for" THEN current_depth + 1 ELSE current_depth

\* why the while loop of crawl() may be left (crawler.py 240, 259)
FrontierEmpty == urls_to_crawl = <<>>
BudgetReached == Cardinality(visited_urls) >= max_pages
DepthPassed == current_depth > max_depth

\* C1: with max_pages >= 0, the visited set never holds more than max_pages
\* URLs, also in the middle of a level and when more URLs are pending than
\* the budget has room for.
C1_VisitedWithinBudget == Cardinality(visited_urls) <= max_pages

C1_Witness ==
    /\ pc = "for" /\ idx > 1 /\ idx <= Len(current_urls)
    /\ max_pages > 0 /\ Cardinality(visited_urls) < max_pages
    /\ Len(Pending) + Len(urls_to_crawl)
           > max_pages - Cardinality(visited_urls)

\* C2: a URL is admitted (marked visited and navigated) at most once; a call
\* that is not admitted returns no links and navigates nothing; the visited
\* set has one URL per admission.
C2_NoRevisit ==
    /\ \A u \in DOMAIN navcount :
           /\ navcount[u] <= 1
           /\ (u \in visited_urls <=> navcount[u] = 1)
    /\ Cardinality(visited_urls) = admissions
    /\ (last.via # "none" /\ ~last.admitted
            => last.result = <<>> /\ ~last.navigated)

\* a call with a URL visited before, while budget and depth would allow it
C2_Witness ==
    /\ last.via = "direct" /\ ~last.admitted
    /\ last.url \in visited_urls
    /\ Cardinality(visited_urls) < max_pages
    /\ last.depth <= max_depth

\* C3 as stated: the next-level list never holds the same URL twice.
C3_FrontierHoldsNoDuplicate == InRun => NoDup(urls_to_crawl)

\* C3 as amended: the loop hands a URL to crawl_page at most once per crawl,
\* and the URL is marked visited then (not when it is put in the next-level
\* list, which may hold it twice); the loop passes over the later
\* occurrences.  A call that a failed rotation aborts marks nothing.
C3_DispatchedOnce ==
    /\ NoDup(dispatched)
    /\ \A i \in 1..Len(dispatched) :
           \/ dispatched[i] \in visited_urls
           \/ i = Len(dispatched) /\ last.raised /\ last.rotated

\* the loop has just passed over a URL it had handed to crawl_page before,
\* which the level held twice
C3_Witness ==
    /\ pc = "for" /\ idx > 2
    /\ current_urls[idx - 1] = current_urls[idx - 2]
    /\ current_urls[idx - 1] \in Range(dispatched)

\* C4: nothing is processed or queued at a depth above max_depth; the start
\* URL has depth 0 and a URL found on a page of depth d has depth d + 1.
C4_DepthBound ==
    /\ (last.admitted => last.depth <= max_depth)
    /\ (LastInRun /\ last.admitted => last.depth = disc[last.url])
    /\ (InRun =>
          /\ (urls_to_crawl # <<>> => QueueDepth <= max_depth)
          /\ (pc = "for" /\ Pending # <<>> => current_depth <= max_depth)
          /\ \A u \in Range(urls_to_crawl) : disc[u] \in 0..QueueDepth
          /\ disc[HttpA("/")] = 0)

\* a page processed at the maximum depth, below the start page
C4_Witness ==
    /\ LastInRun /\ last.admitted /\ last.outcome = "ok"
    /\ last.depth = max_depth /\ max_depth >= 1

\* C5: the URLs of depth d are all processed before any URL of depth d + 1:
\* along the calls of the run, and along the records of the run, the depth
\* never decreases.
C5_LevelOrder ==
    /\ \A i, j \in 1..Len(dispatched) :
           i < j => disc[dispatched[i]] <= disc[dispatched[j]]
    /\ \A i, j \in 1..Len(RunRecords) :
           i < j => disc[RunRecords[i].url] <= disc[RunRecords[j].url]

\* records of three depths, two of them of the same depth
C5_Witness ==
    /\ Len(RunRecords) >= 4
    /\ disc[RunRecords[1].url] = 0
    /\ disc[RunRecords[2].url] = 1
    /\ disc[RunRecords[3].url] = 1
    /\ disc[RunRecords[4].url] = 2

\* C6: a navigation failure is isolated: the call returns no links and raises
\* nothing, appends no record and leaves the URL visited; the loop goes on
\* with the rest of the level; a run that nothing else aborts ends with its
\* records persisted.
C6_NavFailureState ==
    /\ (last.outcome = "nav_fails" =>
          /\ last.admitted /\ ~last.raised /\ ~last.appended
          /\ last.result = <<>>
          /\ last.url \in visited_urls)
    /\ (pc = "finally" /\ ~raised => persisted = <<Snapshot>>)

C6_NavFailureStep ==
    (pc = "for" /\ navcount' # navcount /\ last'.outcome = "nav_fails") =>
        /\ pc' = "for" /\ ~raised'
        /\ idx' = idx + 1
        /\ current_urls' = current_urls /\ urls_to_crawl' = urls_to_crawl
        /\ data' = data
        /\ visited_urls' = visited_urls \cup {current_urls[idx]}

C6_FailureIsolation == []C6_NavFailureState /\ [][C6_NavFailureStep]_vars

\* a page of the level of a failed navigation was processed after it, and
\* the run has persisted its records
C6_Witness ==
    /\ pc = "finally" /\ ~raised /\ persisted # <<>>
    /\ LastInRun /\ last.after_fail /\ last.appended

\* C7 as stated: every admitted call of crawl_page sleeps once before it
\* returns.
C7_PacedOncePerUrl == last.admitted => last.slept = 1

\* C8 as stated: after a rotation the page the loop navigates with is open
\* and belongs to the newest context, which is bound to the current proxy.
C8_PageOfNewContext ==
    (pc \in {"while", "for"} /\ rotations >= 1) =>
        /\ page \in pages
        /\ page = Len(ctx_proxy) - 1
        /\ ctx_proxy[page + 1] = proxy

\* C9 as stated: a run that got its browser and context leaves, however it
\* ends, no browser, context or page open.
C9_AllReleased ==
    (pc = "idle" /\ runs > 0 /\ ctx_proxy # <<>>) =>
        browser # "open" /\ contexts = {} /\ pages = {}

\* C10 as stated: the session is released first and the records are
\* persisted after it, on every path that releases the session.
C10_ReleaseThenPersist ==
    (pc = "idle" /\ "release" \in Range(events)) =>
        events = <<"release", "save">>

\* C10 as amended: save_data is called, once, before the session is
\* released, when the loop ends without an error; the session is released
\* after it whether save_data succeeded or not; when an error leaves the
\* loop, the session is released and nothing is persisted.
C10_PersistThenRelease ==
    /\ events \in {<<>>, <<"save">>, <<"save", "release">>, <<"release">>}
    /\ Len(persisted) <= 1
    /\ (pc = "finally" /\ ~raised => persisted = <<Snapshot>>)
    /\ (pc = "idle" /\ browser = "closed" =>
          /\ "release" \in Range(events)
          /\ (~raised <=> Len(persisted) = 1)
          /\ (~raised => events = <<"save", "release">>)
          /\ (events = <<"release">> => raised /\ persisted = <<>>))

\* a run that ended normally after persisting records
C10_Witness ==
    /\ pc = "idle" /\ ~raised /\ events = <<"save", "release">>
    /\ Len(persisted) = 1 /\ persisted[1].data # <<>>

\* C11: a run of crawl() terminates, whatever the pages link to and however
\* their loads fail; the loop is left only with the next level empty, the
\* budget reached or the depth counter above max_depth; the depth counter is
\* the number of completed levels, and at most max_depth + 1 levels run.
C11_ExitState ==
    /\ (pc \in {"save", "finally"} =>
           FrontierEmpty \/ BudgetReached \/ DepthPassed)
    /\ (InRun => levels = current_depth + (IF pc = "for" THEN 1 ELSE 0))
    /\ levels <= max_depth + 1

C11_Termination == (InRun ~> pc = "idle") /\ []C11_ExitState

\* a run has ended after max_depth + 1 levels with the depth counter above
\* max_depth and budget left, one of its pages having failed
C11_Witness ==
    /\ pc = "idle" /\ browser = "closed" /\ ~raised
    /\ max_depth >= 1 /\ levels = max_depth + 1 /\ DepthPassed
    /\ ~BudgetReached
    /\ Cardinality(visited_urls) > Len(data)

\* C12 as stated: once the loop of crawl() runs, no error of the handling of
\* a URL, the rotation before it included, leaves crawl(): the loop is only
\* left for save_data, and an error can only come from there.
C12_NoUrlErrorPropagates ==
    /\ (pc = "finally" => "save" \in Range(events))
    /\ (LastInRun => ~last.raised)

\* C13: with the pool [A, B, C] and 25 URLs processed, the proxy of the
\* instance is A while URLs 1-10 are processed, B for URLs 11-20 and C for
\* URLs 21-25 (and so on round the pool, for any pool); a rotation binds the
\* context it creates to that proxy.
C13_RotationCadence ==
    (LastInRun /\ last.admitted /\ proxies # <<>>) =>
        /\ proxy = proxies[(((Len(dispatched) - 1) \div RotationThreshold)
                                % Len(proxies)) + 1]
        /\ (proxies = <<"A", "B", "C">> =>
              proxy = (IF Len(dispatched) <= 10 THEN "A"
                       ELSE IF Len(dispatched) <= 20 THEN "B" ELSE "C"))
        /\ ctx_proxy[Len(ctx_proxy)] = proxy

\* the 25th URL of a run with the pool [A, B, C] has been processed
C13_Witness ==
    /\ LastInRun /\ last.admitted /\ proxies = <<"A", "B", "C">>
    /\ Len(dispatched) = 25 /\ proxy = "C" /\ rotations = 2

\* C14: a call of crawl_page rotates if and only if there is a proxy pool
\* and the counter has reached 10; a rotation leaves the counter at 0 before
\* the increment of the call, so the call ends with 1; with a pool the
\* counter never passes 10, and without a pool nothing ever rotates.
C14_CounterState ==
    /\ (proxies # <<>> => proxy_rotation_counter \in 0..10)
    /\ (proxies = <<>> =>
           rotations = 0 /\ ~last.rotated /\ Len(ctx_proxy) <= 1
               /\ proxy = NoProxy)

C14_CallStep ==
    Len(dispatched') = Len(dispatched) + 1 =>
        /\ (last'.rotated <=> (proxies # <<>> /\ proxy_rotation_counter >= 10))
        /\ (last'.rotated /\ ~last'.raised => proxy_rotation_counter' = 1)
        /\ (~last'.rotated =>
               proxy_rotation_counter' = proxy_rotation_counter + 1)

C14_RotatesAtThreshold == []C14_CounterState /\ [][C14_CallStep]_vars

\* a call has rotated and counted itself
C14_Witness ==
    /\ LastInRun /\ last.rotated /\ ~last.raised /\ last.admitted
    /\ proxy_rotation_counter = 1 /\ rotations >= 1

\* C15 as stated: the counter is the number of URLs admitted since the last
\* rotation (here, without proxies: since construction), also after a call
\* of crawl_page that the entry guard rejected.
C15_CounterCountsAdmitted ==
    proxies = <<>> => proxy_rotation_counter = admissions

\* C16: during a crawl every URL of the visited set and of the pending
\* lists has the host of the start URL; a link to another host is dropped
\* on whatever page, at whatever depth, it is found.
C16_SameOrigin ==
    InRun =>
        \A s \in DOMAIN disc : disc[s] = 0 =>
            /\ \A u \in visited_urls \cup Range(urls_to_crawl)
                        \cup Range(current_urls) : u.netloc = s.netloc
            /\ (LastInRun =>
                   \A i \in 1..Len(last.result) :
                       last.result[i].netloc = s.netloc)

\* a page below the start page presented a link to another host next to a
\* link that was kept
C16_Witness ==
    /\ LastInRun /\ last.depth >= 1 /\ last.offsite /\ last.result # <<>>

\* C17 as stated: with an http(s) start URL, every URL that link discovery
\* returns, and so every URL of the pending lists and of the visited set,
\* has the scheme http or https, whatever the hrefs of the pages hold.
C17_OnlyHttpSchemes ==
    /\ \A i \in 1..Len(last.result) :
           last.result[i].scheme \in {"http", "https"}
    /\ \A u \in visited_urls \cup Range(urls_to_crawl)
                \cup Range(current_urls) : u.scheme \in {"http", "https"}

\* C18 as stated: every URL of the visited set, the start URL included, has
\* no fragment, and no page is navigated under two spellings that differ in
\* the fragment only.
C18_VisitedNormalized ==
    /\ \A u \in visited_urls : u.fragment = ""
    /\ \A u, v \in DOMAIN navcount :
           (navcount[u] > 0 /\ navcount[v] > 0
                /\ normalized_url(u) = normalized_url(v)) => u = v

\* C19: the normalization of a discovered link is idempotent, and two URLs
\* that differ in the fragment only normalize to the same string.
C19_NormalizeIdempotent ==
    applied >= 1 =>
        /\ normalize(text) = text
        /\ normalize(twin) = twin
        /\ text = twin

\* two links have been normalized twice, to a string with host, path and
\* query
C19_Witness ==
    /\ applied = 2 /\ twin = text
    /\ text = <<"h", ":", "/", "/", "a", "/", "?", "a">>

\* C20 as stated: a record is appended only for a URL that is in the
\* visited set already, and at most one per visited URL: there are never
\* more records than visited URLs, no URL has two records, and the URL of
\* every record is in the visited set.
C20_RecordsOfVisited ==
    /\ Len(data) <= Cardinality(visited_urls)
    /\ \A i \in 1..Len(data) : data[i].url \in visited_urls
    /\ \A i, j \in 1..Len(data) : data[i].url = data[j].url => i = j
    /\ (last.appended => last.admitted /\ last.url \in visited_urls)

\* C21 as stated: the links of a page are discovered and returned exactly
\* when its extraction succeeded and its depth is below max_depth: a page
\* whose extraction failed returns no links, and a page whose record was
\* appended below max_depth has had its links extracted.
C21_LinksIffExtracted ==
    last.admitted =>
        /\ (~last.appended => last.result = <<>> /\ ~last.raised)
        /\ (last.appended /\ last.depth < max_depth => last.outcome = "ok")

\* C22: with max_pages = 1, whatever max_depth is and whatever links the
\* start page has, the first run of a crawler navigates and marks visited
\* the start URL and nothing else: the loop dispatches one URL, none of the
\* links the start page returned is dispatched, and when the loop is left
\* the visited set is exactly the start URL.
C22_OnlyStartUrl ==
    (max_pages = 1 /\ runs = 1 /\ calls = 0) =>
        /\ Len(dispatched) <= 1
        /\ \A u \in visited_urls : disc[u] = 0
        /\ \A u \in DOMAIN navcount :
               /\ navcount[u] <= 1
               /\ (navcount[u] = 1 => disc[u] = 0)
        /\ (LastInRun => \A l \in Range(last.result) :
                             l \notin Range(dispatched))
        /\ (pc \in {"save", "finally"} =>
               /\ Cardinality(visited_urls) = 1
               /\ visited_urls = Range(dispatched))

\* a run with max_pages = 1 and max_depth >= 1 whose start page returned
\* links has left the loop
C22_Witness ==
    /\ max_pages = 1 /\ max_depth >= 1 /\ runs = 1 /\ calls = 0
    /\ pc = "save" /\ LastInRun
    /\ last.outcome = "ok" /\ last.result # <<>>
    /\ Len(dispatched) = 1

\* C23 as stated: loading a proxy file that exists fails, and leaves no
\* pool, exactly when some entry is not a dict, has no server or has an
\* empty server.
C23_LoadValidates ==
    (pc # "new" /\ proxy_file.given /\ proxy_file.exists) =>
        /\ raised <=>
               \E i \in DOMAIN proxy_file.content :
                   \/ ~proxy_file.content[i].mapping
                   \/ "server" \notin proxy_file.content[i].fields
                   \/ proxy_file.content[i].server = ""
        /\ (raised => proxies = <<>>)

\* C24: a call of crawl_page at depth max_depth (or deeper) returns no
\* links, and the links a call returns hold no URL of the visited set as it
\* is when the call returns, so never the URL the call was made with.
C24_ReturnsUnvisited ==
    last.via # "none" =>
        /\ (last.depth >= max_depth => last.result = <<>>)
        /\ \A l \in Range(last.result) : l \notin visited_urls
        /\ (last.url \in visited_urls => last.url \notin Range(last.result))
        /\ (last.admitted => last.url \in visited_urls)

\* the start page of the star site, which links to itself and to every
\* leaf, was processed below max_depth and returned the leaves only
C24_Witness ==
    /\ LastInRun /\ last.outcome = "ok" /\ last.depth < max_depth
    /\ last.url = HttpA("/") /\ HttpA("/") \in Range(StarLinks)
    /\ Len(last.result) = RotLeaves
    /\ Len(last.result) < Len(StarLinks)

\* C25 as stated: the k-th rotation of a run activates the entry at
\* position k mod n of the pool, for every pool, also one that lists the
\* same proxy at more than one position.
C25_CyclesInListOrder ==
    (LastInRun /\ last.admitted /\ ~last.raised /\ proxies # <<>>) =>
        proxy = proxies[(rotations % Len(proxies)) + 1]

\* C26: a rotation creates the new context and its page before it closes
\* the context of the page it was given, it leaves the browser as it is
\* (open, the same one), and after none of its statements are there zero
\* open contexts.
C26_AcquireThenRelease ==
    [][(Len(dispatched') = Len(dispatched) + 1 /\ last'.rotated) =>
          /\ browser = "open" /\ browser' = browser
          /\ contexts # {} /\ contexts' # {}
          /\ \A i \in DOMAIN last'.steps : last'.steps[i].contexts # {}
          /\ \A i, j \in DOMAIN last'.steps :
                 (last'.steps[i].op = "close" /\ last'.steps[j].op # "close")
                     => j < i]_vars

\* a rotation has run to its end: new context, new page, close
C26_Witness ==
    /\ LastInRun /\ last.rotated /\ ~last.raised /\ rotations >= 1
    /\ Len(last.steps) = 3 /\ last.steps[3].op = "close"
    /\ Cardinality(last.steps[1].contexts) = 2
    /\ contexts = last.steps[3].contexts /\ browser = "open"

\* C27 as stated: a run of crawl() on an instance that crawl_page was never
\* called on from outside starts with an empty visited set and an empty
\* record list, and the list it returns holds records of this run only.
C27_RunsStartFresh ==
    calls = 0 =>
        /\ (pc = "while" /\ levels = 0 =>
               visited_urls = {} /\ data = <<>>)
        /\ (pc \in {"save", "finally"} =>
               \A i \in DOMAIN data : data[i].run = runs)

====
